---- MODULE Spec2Model ----
(***************************************************************************)
(* Model of backend/server.js: the chats.json data layer, mode detection,  *)
(* the generator call and the five /api routes.                            *)
(*                                                                         *)
(* Every request runs in a slot of Procs.  One action is the completion of *)
(* the I/O the request is waiting for (fs.access, fs.writeFile,            *)
(* fs.readFile, fetch) together with the synchronous code that follows it  *)
(* up to the next await.  A file operation takes effect atomically when it *)
(* completes.                                                              *)
(*                                                                         *)
(* Text is a sequence of one-character strings, so that toLowerCase and    *)
(* includes are computed and not assumed.  Fixed strings that the code     *)
(* only concatenates or stores are one-element sequences.                  *)
(***************************************************************************)
EXTENDS Integers, Sequences, FiniteSets, TLC

\* ---------------------------------------------------------------- bounds

\* Number of POST /api/chat requests one run may start.
MaxTurns == 2
\* Largest number of user/assistant pairs in a transcript that is already in
\* chats.json when the server starts.
MaxPairs == 6
\* Largest number of fragments a message handed to detectMode is built from.
MaxFrags == 3

\* Request slots and the identifiers crypto.randomUUID() can return.
Procs == {"p1", "p2"}
Ids == {"a", "b"}
\* An identifier the server never generated, and a missing chatId field.
UnknownId == "zz"
NoId == ""

Null == "null"

\* ------------------------------------------------------------------ text

Str(s) == <<s>>

UpperAlpha == <<"A","B","C","D","E","F","G","H","I","J","K","L","M",
                "N","O","P","Q","R","S","T","U","V","W","X","Y","Z">>
LowerAlpha == <<"a","b","c","d","e","f","g","h","i","j","k","l","m",
                "n","o","p","q","r","s","t","u","v","w","x","y","z">>

LowerOf ==
    [c \in {UpperAlpha[i] : i \in 1..26} |->
        LowerAlpha[CHOOSE i \in 1..26 : UpperAlpha[i] = c]]

toLowerCaseChar(c) == IF c \in DOMAIN LowerOf THEN LowerOf[c] ELSE c

toLowerCase(s) == [i \in 1..Len(s) |-> toLowerCaseChar(s[i])]

\* String.prototype.includes: w occurs in s as a contiguous substring.
includes(s, w) ==
    \E i \in 1..(Len(s) - Len(w) + 1) : SubSeq(s, i, i + Len(w) - 1) = w

techKeywords ==
    { <<"c","o","d","e">>, <<"b","u","g">>, <<"e","r","r","o","r">>,
      <<"a","l","g","o","r","i","t","h","m">>,
      <<"f","u","n","c","t","i","o","n">>,
      <<"j","a","v","a","s","c","r","i","p","t">>, <<"n","o","d","e">>,
      <<"r","e","a","c","t">>, <<"e","x","p","r","e","s","s">>,
      <<"a","p","i">>, <<"d","a","t","a","b","a","s","e">>,
      <<"s","q","l">>, <<"c","+","+">>, <<"j","a","v","a">>,
      <<"p","y","t","h","o","n">> }

KwShortAnswer == <<"s","h","o","r","t"," ","a","n","s","w","e","r">>
KwExam == <<"e","x","a","m">>
KwDefine == <<"d","e","f","i","n","e">>

detectModeExamFirst(message) ==
    LET lower == toLowerCase(message) IN
    IF \E word \in techKeywords : includes(lower, word) THEN "technical"
    ELSE IF includes(lower, KwExam) \/ includes(lower, KwDefine) THEN "exam"
    ELSE IF includes(lower, KwShortAnswer) THEN "concise"
    ELSE "chat"

detectMode(message) ==
    LET lower == toLowerCase(message) IN
    IF \E word \in techKeywords : includes(lower, word) THEN "technical"
    ELSE IF includes(lower, KwShortAnswer) THEN "concise"
    ELSE IF includes(lower, KwExam) \/ includes(lower, KwDefine) THEN "exam"
    ELSE "chat"

\* temperature is kept in tenths.
MODES ==
    [ chat |->
        [ temperature |-> 8, max_tokens |-> 500,
          systemPrompt |-> Str("You are Almas, a friendly AI created by Hussain. Be natural and conversational.") ],
      technical |->
        [ temperature |-> 2, max_tokens |-> 2000,
          systemPrompt |-> Str("You are Almas, a senior software engineer. Give optimized, correct answers with code blocks.") ],
      concise |->
        [ temperature |-> 5, max_tokens |-> 150,
          systemPrompt |-> Str("You are Almas. Give very short and clear answers.") ],
      exam |->
        [ temperature |-> 3, max_tokens |-> 1200,
          systemPrompt |-> Str("You are Almas. Answer in structured exam format with headings and bullet points.") ] ]

ModeNames == {"chat", "technical", "concise", "exam"}

\* The greeting and the fallback reply (their emoji left out).
Greeting == Str("Hey I'm Almas. How can I help you today?")
Fallback == Str("I'm having trouble connecting right now.")
NoneText == <<"N","o","n","e">>
MemoryHeader == Str("\nUser Memory:\n")


\* A user message without a keyword and one with a technical keyword.
MsgHi == <<"H","i">>
MsgBug == <<"B","u","g">>
UserTexts == {MsgHi, MsgBug}
\* The content the provider returns on success.
ReplyOk == Str("ok")

\* ----------------------------------------------------------------- state

VARIABLES
    file,       \* chats.json: [exists, data], data maps chatId to a session
    pc,         \* per request slot: the await the request is suspended at
    req,        \* per request slot: [kind, chatId, message]
    data,       \* per request slot: the object readData returned
    chat,       \* per request slot: the session object of POST /api/chat
    selectedMode, \* per request slot: selectedMode of POST /api/chat
    sent,       \* per request slot: the arguments callGroq was called with
    upstream,   \* per request slot: whether the provider call ok'd or failed
    aiReply,    \* per request slot: what callGroq returned
    resp,       \* per request slot: the HTTP response
    life,       \* per identifier: free, issued, created, delIssued, removed
    born,       \* per identifier: the title, createdAt, forcedMode it was created with
    turns,      \* number of POST /api/chat requests that passed validation
    dmMessage,  \* argument of a detectMode call
    dmMode      \* its result

vars == <<file, pc, req, data, chat, selectedMode, sent, upstream, aiReply, resp, life, born,
          turns, dmMessage, dmMode>>
locals == <<data, chat, selectedMode, sent, upstream, aiReply>>
dmVars == <<dmMessage, dmMode>>

Msg(role, content) == [role |-> role, content |-> content]

EmptyMap == [i \in {} |-> 0]
Put(d, id, v) == [i \in (DOMAIN d) \cup {id} |-> IF i = id THEN v ELSE d[i]]
Del(d, id) == [i \in (DOMAIN d) \ {id} |-> d[i]]

NoChat == [title |-> <<>>, createdAt |-> 0, messages |-> <<>>,
           memory |-> <<>>, forcedMode |-> Null]
NoSent == [messages |-> <<>>, config |-> [temperature |-> 0, max_tokens |-> 0]]
NoReq == [kind |-> "none", chatId |-> NoId, message |-> <<>>]
NoResp == [status |-> 0]

\* Date.now(): a logical clock, the number of identifiers generated so far.
Now(l) == Cardinality({i \in Ids : l[i] # "free"})

SeedChatWithMemory(now) ==
    [title |-> Str("New Chat"), createdAt |-> now,
     messages |-> <<Msg("assistant", Greeting)>>,
     memory |-> NoneText, forcedMode |-> Null]

SeedChat(now) ==
    [title |-> Str("New Chat"), createdAt |-> now,
     messages |-> <<Msg("assistant", Greeting)>>,
     memory |-> <<>>, forcedMode |-> Null]

\* A session after k sequential turns: the greeting and k user/assistant pairs.
RECURSIVE Pairs(_)
Pairs(k) ==
    IF k = 0 THEN <<>>
    ELSE Pairs(k - 1) \o
         << Msg("user", IF k % 2 = 1 THEN MsgHi ELSE MsgBug),
            Msg("assistant", IF k % 3 = 0 THEN Fallback ELSE ReplyOk) >>

History(k, now, forced) ==
    [title |-> Str("New Chat"), createdAt |-> now,
     messages |-> <<Msg("assistant", Greeting)>> \o Pairs(k),
     memory |-> IF k = 0 THEN <<>> ELSE IF k % 2 = 1 THEN MsgHi ELSE MsgBug,
     forcedMode |-> forced]


\* ------------------------------------------------- POST /api/chat helpers

\* chat.forcedMode || detectMode(message)
SelectModeDetectOnly(c, message) == detectMode(message)

SelectMode(c, message) ==
    IF c.forcedMode # Null THEN c.forcedMode
    ELSE detectMode(message)

\* `${config.systemPrompt}\nUser Memory:\n${chat.memory || "None"}`
systemMessage(config, c) ==
    Msg("system", config.systemPrompt \o MemoryHeader \o
                  (IF c.memory = <<>> THEN NoneText ELSE c.memory))

\* chat.messages.slice(-12)
sliceFirst(messages) ==
    IF Len(messages) <= 12 THEN messages ELSE SubSeq(messages, 1, 12)

slice(messages) ==
    IF Len(messages) <= 12 THEN messages
    ELSE SubSeq(messages, Len(messages) - 11, Len(messages))

\* What callGroq returns for each way the provider can answer: the content,
\* "" when the response carries no content, the fallback text when the
\* response is not ok or fetch / response.json() throws.
Outcomes == {"ok", "empty", "http_error", "exception"}

\* response.ok is false, or fetch / response.json() threw.
Failed(outcome) == outcome \in {"http_error", "exception"}

callGroqRethrow(outcome) ==
    IF outcome = "ok" THEN ReplyOk
    ELSE IF outcome = "empty" THEN <<>>
    ELSE Str("Groq API Error")

callGroq(outcome) ==
    IF outcome = "ok" THEN ReplyOk
    ELSE IF outcome = "empty" THEN <<>>
    ELSE Fallback

\* ----------------------------------------------------------------- Init

DocAbsent == [exists |-> FALSE, data |-> EmptyMap]

\* chats.json left by an earlier run: session a after k turns, session b
\* fresh with a forced mode.
DocTwo(k) ==
    [exists |-> TRUE,
     data |-> Put(Put(EmptyMap, "a", History(k, 1, Null)),
                  "b", History(0, 2, "concise"))]

InitCommon ==
    /\ pc = [p \in Procs |-> "idle"]
    /\ req = [p \in Procs |-> NoReq]
    /\ data = [p \in Procs |-> EmptyMap]
    /\ chat = [p \in Procs |-> NoChat]
    /\ selectedMode = [p \in Procs |-> Null]
    /\ sent = [p \in Procs |-> NoSent]
    /\ upstream = [p \in Procs |-> "none"]
    /\ aiReply = [p \in Procs |-> <<>>]
    /\ resp = [p \in Procs |-> NoResp]
    /\ turns = 0
    /\ dmMessage = <<>>
    /\ dmMode = "none"

\* The fields createChat sets once (lines 75-77) and no other line assigns.
Created(c) ==
    [title |-> c.title, createdAt |-> c.createdAt, forcedMode |-> c.forcedMode]

BornFor(f) ==
    [i \in Ids |-> IF i \in DOMAIN f.data THEN Created(f.data[i])
                                          ELSE Created(NoChat)]

LifeFor(f) ==
    [i \in Ids |-> IF i \in DOMAIN f.data THEN "created" ELSE "free"]

Init ==
    /\ file \in {DocAbsent, DocTwo(0)}
    /\ life = LifeFor(file)
    /\ born = BornFor(file)
    /\ InitCommon

InitSeq ==
    /\ file \in {DocAbsent} \cup {DocTwo(k) : k \in 0..MaxPairs}
    /\ life = LifeFor(file)
    /\ born = BornFor(file)
    /\ InitCommon


\* --------------------------------------------------------------- requests

\* Identifiers a client can send: those a create has returned, and one the
\* server never generated.
KnownIds == {i \in Ids : life[i] \in {"created", "delIssued", "removed"}}
ReqIds == KnownIds \cup {UnknownId}

Begin(p, kind, id, m) ==
    /\ pc[p] = "idle"
    /\ req' = [req EXCEPT ![p] = [kind |-> kind, chatId |-> id, message |-> m]]

\* GET /api/chats
StartList(p) ==
    /\ Begin(p, "list", NoId, <<>>)
    /\ pc' = [pc EXCEPT ![p] = "access"]
    /\ UNCHANGED <<file, locals, resp, life, born, turns, dmVars>>

\* GET /api/chat/:chatId
StartGet(p, ids) ==
    \E id \in ids :
        /\ Begin(p, "get", id, <<>>)
        /\ pc' = [pc EXCEPT ![p] = "access"]
        /\ UNCHANGED <<file, locals, resp, life, born, turns, dmVars>>

\* DELETE /api/chat/:chatId
StartDelete(p, ids) ==
    \E id \in ids :
        /\ Begin(p, "delete", id, <<>>)
        /\ pc' = [pc EXCEPT ![p] = "access"]
        /\ life' = IF id \in Ids /\ life[id] = "created"
                   THEN [life EXCEPT ![id] = "delIssued"] ELSE life
        /\ born' = born
        /\ UNCHANGED <<file, locals, resp, turns, dmVars>>

\* The creates that have not drawn their identifier yet.  Ids is finite, so a
\* create starts only while an identifier is left for it.
Creating ==
    {q \in Procs : req[q].kind = "create" /\ pc[q] \in {"access", "init", "read"}}

\* POST /api/new-chat
StartCreate(p) ==
    /\ Cardinality({i \in Ids : life[i] = "free"}) > Cardinality(Creating)
    /\ Begin(p, "create", NoId, <<>>)
    /\ pc' = [pc EXCEPT ![p] = "access"]
    /\ UNCHANGED <<file, locals, resp, life, born, turns, dmVars>>

\* POST /api/chat, lines 217-222: validation, then getChat is called.
ValidateIdOnly(id, m) == id # NoId

Validate(id, m) == id # NoId /\ m # <<>>

StartChat(p, ids, texts) ==
    \E id \in ids, m \in texts :
        /\ Begin(p, "chat", id, m)
        /\ IF ~Validate(id, m)
           THEN /\ pc' = [pc EXCEPT ![p] = "done"]
                /\ resp' = [resp EXCEPT ![p] =
                              [status |-> 400, error |-> "Invalid request"]]
                /\ UNCHANGED turns
           ELSE /\ turns < MaxTurns
                /\ turns' = turns + 1
                /\ pc' = [pc EXCEPT ![p] = "access"]
                /\ UNCHANGED resp
        /\ UNCHANGED <<file, locals, life, born, dmVars>>

\* ------------------------------------------------------------- data layer

\* ensureDataFile, line 35: fs.access resolves or rejects.
AccessFirstOnly(p) ==
    /\ pc[p] = "access"
    /\ pc' = [pc EXCEPT ![p] = IF file.exists THEN "read" ELSE "init"]
    /\ UNCHANGED <<file, req, locals, resp, life, born, turns, dmVars>>

Access(p) ==
    /\ pc[p] \in {"access", "save_access"}
    /\ pc' = [pc EXCEPT ![p] =
                IF file.exists
                THEN (IF pc[p] = "access" THEN "read" ELSE "save_read")
                ELSE (IF pc[p] = "access" THEN "init" ELSE "save_init")]
    /\ UNCHANGED <<file, req, locals, resp, life, born, turns, dmVars>>

\* ensureDataFile, line 37: fs.writeFile(DATA_FILE, "{}").
EnsureWrite(p) ==
    /\ pc[p] \in {"init", "save_init"}
    /\ file' = [exists |-> TRUE, data |-> EmptyMap]
    /\ pc' = [pc EXCEPT ![p] = IF pc[p] = "init" THEN "read" ELSE "save_read"]
    /\ UNCHANGED <<req, locals, resp, life, born, turns, dmVars>>

Summaries(d) ==
    {[chatId |-> i, title |-> d[i].title, createdAt |-> d[i].createdAt] :
        i \in DOMAIN d}

\* list.sort((a, b) => b.createdAt - a.createdAt)
RECURSIVE SortDesc(_)
SortDesc(S) ==
    IF S = {} THEN <<>>
    ELSE LET m == CHOOSE x \in S : \A y \in S : y.createdAt <= x.createdAt
         IN  <<m>> \o SortDesc(S \ {m})

NotFound == [status |-> 404, error |-> "Chat not found"]

\* GET /api/chats, lines 182-189, after readFile.
ReadList(p) ==
    /\ pc[p] = "read" /\ req[p].kind = "list" /\ file.exists
    /\ resp' = [resp EXCEPT ![p] =
                  [status |-> 200, list |-> SortDesc(Summaries(file.data))]]
    /\ pc' = [pc EXCEPT ![p] = "done"]
    /\ UNCHANGED <<file, req, locals, life, born, turns, dmVars>>

\* getChat line 53: data[chatId] || null, null being NoChat.
getChatOrSeed(d, chatId) ==
    IF chatId \in DOMAIN d THEN d[chatId] ELSE SeedChat(0)

getChat(d, chatId) == IF chatId \in DOMAIN d THEN d[chatId] ELSE NoChat

\* GET /api/chat/:chatId lines 197-199, after getChat's readFile.
ReadGet(p) ==
    /\ pc[p] = "read" /\ req[p].kind = "get" /\ file.exists
    /\ LET c == getChat(file.data, req[p].chatId)
       IN  resp' = [resp EXCEPT ![p] =
                      IF c = NoChat THEN NotFound
                      ELSE [status |-> 200, chat |-> c]]
    /\ pc' = [pc EXCEPT ![p] = "done"]
    /\ UNCHANGED <<file, req, locals, life, born, turns, dmVars>>

\* deleteChat lines 64-66, after readFile.
deleteChatKeep(d, id) == d

deleteChatData(d, id) == Del(d, id)

ReadDelete(p) ==
    /\ pc[p] = "read" /\ req[p].kind = "delete" /\ file.exists
    /\ IF req[p].chatId \in DOMAIN file.data
       THEN /\ data' = [data EXCEPT ![p] = deleteChatData(file.data, req[p].chatId)]
            /\ pc' = [pc EXCEPT ![p] = "write"]
            /\ UNCHANGED resp
       ELSE /\ resp' = [resp EXCEPT ![p] = NotFound]
            /\ pc' = [pc EXCEPT ![p] = "done"]
            /\ UNCHANGED data
    /\ UNCHANGED <<file, req, chat, selectedMode, sent, upstream, aiReply,
                   life, born, turns, dmVars>>

\* createChat lines 72-82, after readFile.  crypto.randomUUID() returns an
\* identifier it has not returned before.
ReadCreate(p) ==
    /\ pc[p] = "read" /\ req[p].kind = "create" /\ file.exists
    /\ \E chatId \in {i \in Ids : life[i] = "free"} :
        /\ life' = [life EXCEPT ![chatId] = "issued"]
        /\ born' = [born EXCEPT ![chatId] = Created(SeedChat(Now(life')))]
        /\ req' = [req EXCEPT ![p].chatId = chatId]
        /\ data' = [data EXCEPT ![p] =
                      Put(file.data, chatId, SeedChat(Now(life')))]
    /\ pc' = [pc EXCEPT ![p] = "write"]
    /\ UNCHANGED <<file, chat, selectedMode, sent, upstream, aiReply, resp,
                   turns, dmVars>>


\* POST /api/chat lines 222-239, after getChat's readFile: 404, or the user
\* message is pushed, the mode selected and callGroq called.
ReadChat(p) ==
    /\ pc[p] = "read" /\ req[p].kind = "chat" /\ file.exists
    /\ LET fetched == getChat(file.data, req[p].chatId)
           c == [fetched EXCEPT !.messages =
                   Append(@, Msg("user", req[p].message))]
           mode == SelectMode(c, req[p].message)
           config == MODES[mode]
       IN  IF fetched = NoChat
           THEN /\ resp' = [resp EXCEPT ![p] = NotFound]
                /\ pc' = [pc EXCEPT ![p] = "done"]
                /\ UNCHANGED <<chat, selectedMode, sent>>
           ELSE /\ chat' = [chat EXCEPT ![p] = c]
                /\ selectedMode' = [selectedMode EXCEPT ![p] = mode]
                /\ sent' = [sent EXCEPT ![p] =
                              [messages |-> <<systemMessage(config, c)>>
                                              \o slice(c.messages),
                               config |-> [temperature |-> config.temperature,
                                           max_tokens |-> config.max_tokens]]]
                /\ pc' = [pc EXCEPT ![p] = "groq"]
                /\ UNCHANGED resp
    /\ UNCHANGED <<file, req, data, upstream, aiReply, life, born, turns, dmVars>>

\* POST /api/chat lines 241-242: the reply is pushed, the memory overwritten.
applyReplyKeepMemory(c, reply, message) ==
    [c EXCEPT !.messages = Append(@, Msg("assistant", reply))]

applyReplyRetitle(c, reply, message) ==
    [c EXCEPT !.messages = Append(@, Msg("assistant", reply)),
              !.memory = message,
              !.title = message]

applyReplyMemoryReply(c, reply, message) ==
    [c EXCEPT !.messages = Append(@, Msg("assistant", reply)),
              !.memory = reply]

applyReplyNoPush(c, reply, message) ==
    [c EXCEPT !.memory = message]

applyReply(c, reply, message) ==
    [c EXCEPT !.messages = Append(@, Msg("assistant", reply)),
              !.memory = message]

\* callGroq returns; POST /api/chat lines 241-244 up to saveChat's fs.access.
Groq(p, outcomes) ==
    /\ pc[p] = "groq"
    /\ \E outcome \in outcomes :
        /\ upstream' = [upstream EXCEPT ![p] =
                           IF Failed(outcome) THEN "failed" ELSE "ok"]
        /\ aiReply' = [aiReply EXCEPT ![p] = callGroq(outcome)]
    /\ chat' = [chat EXCEPT ![p] = applyReply(@, aiReply'[p], req[p].message)]
    /\ pc' = [pc EXCEPT ![p] = "save_access"]
    /\ UNCHANGED <<file, req, data, selectedMode, sent, resp, life, born, turns,
                   dmVars>>

\* saveChat line 58, after readFile.
ReadSave(p) ==
    /\ pc[p] = "save_read" /\ file.exists
    /\ data' = [data EXCEPT ![p] = Put(file.data, req[p].chatId, chat[p])]
    /\ pc' = [pc EXCEPT ![p] = "write"]
    /\ UNCHANGED <<file, req, chat, selectedMode, sent, upstream, aiReply,
                   resp, life, born, turns, dmVars>>

\* writeData line 48 completes, and the route answers: deleteChat line 67 and
\* lines 205-207, createChat line 85 and line 213, lines 246-249.
Write(p) ==
    /\ pc[p] = "write"
    /\ file' = [exists |-> TRUE, data |-> data[p]]
    /\ data' = [data EXCEPT ![p] = EmptyMap]
    /\ resp' = [resp EXCEPT ![p] =
                  CASE req[p].kind = "delete" ->
                         [status |-> 200, success |-> TRUE]
                    [] req[p].kind = "create" ->
                         [status |-> 200, chatId |-> req[p].chatId]
                    [] req[p].kind = "chat" ->
                         [status |-> 200, reply |-> aiReply[p],
                          modeUsed |-> selectedMode[p]]]
    /\ life' = CASE req[p].kind = "delete" ->
                      [life EXCEPT ![req[p].chatId] = "removed"]
                 [] req[p].kind = "create" ->
                      [life EXCEPT ![req[p].chatId] = "created"]
                 [] OTHER -> life
    /\ born' = born
    /\ pc' = [pc EXCEPT ![p] = "done"]
    /\ chat' = [chat EXCEPT ![p] = NoChat]
    /\ sent' = [sent EXCEPT ![p] = NoSent]
    /\ selectedMode' = [selectedMode EXCEPT ![p] = Null]
    /\ aiReply' = [aiReply EXCEPT ![p] = <<>>]
    /\ UNCHANGED <<req, upstream, turns, dmVars>>

\* The response has been sent; the slot is free for the next request.
Finish(p) ==
    /\ pc[p] \in {"done", "failed"}
    /\ resp[p] # NoResp
    /\ pc' = [pc EXCEPT ![p] = "idle"]
    /\ req' = [req EXCEPT ![p] = NoReq]
    /\ data' = [data EXCEPT ![p] = EmptyMap]
    /\ chat' = [chat EXCEPT ![p] = NoChat]
    /\ selectedMode' = [selectedMode EXCEPT ![p] = Null]
    /\ sent' = [sent EXCEPT ![p] = NoSent]
    /\ upstream' = [upstream EXCEPT ![p] = "none"]
    /\ aiReply' = [aiReply EXCEPT ![p] = <<>>]
    /\ resp' = [resp EXCEPT ![p] = NoResp]
    /\ UNCHANGED <<file, life, born, turns, dmVars>>

\* Requests are served concurrently: any request may take its next step.
\* The concurrent specification runs the requests that write chats.json, on
\* identifiers a create has returned.
Next ==
    \E p \in Procs :
        \/ StartDelete(p, KnownIds)
        \/ StartCreate(p)
        \/ StartChat(p, KnownIds, UserTexts)
        \/ Access(p)
        \/ EnsureWrite(p)
        \/ ReadDelete(p)
        \/ ReadCreate(p)
        \/ ReadChat(p)
        \/ Groq(p, {"ok"})
        \/ ReadSave(p)
        \/ Write(p)
        \/ Finish(p)

Spec == Init /\ [][Next]_vars

\* Requests arrive one at a time: a request starts when no other is in flight.
\* The sequential specification runs every route, with identifiers the server
\* never generated and with missing fields among the inputs.
Quiet == \A q \in Procs : pc[q] = "idle"

NextSeq ==
    \E p \in Procs :
        \/ Quiet /\ StartList(p)
        \/ Quiet /\ StartGet(p, ReqIds)
        \/ Quiet /\ StartDelete(p, ReqIds)
        \/ Quiet /\ StartCreate(p)
        \/ Quiet /\ StartChat(p, ReqIds \cup {NoId}, UserTexts \cup {<<>>})
        \/ Access(p)
        \/ EnsureWrite(p)
        \/ ReadList(p)
        \/ ReadGet(p)
        \/ ReadDelete(p)
        \/ ReadCreate(p)
        \/ ReadChat(p)
        \/ Groq(p, Outcomes)
        \/ ReadSave(p)
        \/ Write(p)
        \/ Finish(p)

SpecSeq == InitSeq /\ [][NextSeq]_vars


\* ------------------------------------------------- detectMode on its own

Fragments ==
    { <<"B","u","g">>, <<"A","P","I">>, <<"h","i"," ">>,
      <<"s","h","o","r","t"," ","a","n","s","w","e","r">>,
      <<"S","h","o","r","t"," ">>, <<"A","n","s","w","e","r">>,
      <<"E","X","A","M">>, <<"e","x">>, <<"a","m">>,
      <<"d","e","f","i","n","e">> }

\* The messages built from 1 to n fragments.
RECURSIVE Concats(_)
Concats(n) ==
    IF n = 0 THEN {<<>>}
    ELSE {f \o m : f \in Fragments, m \in Concats(n - 1)}

Messages == UNION {Concats(n) : n \in 1..MaxFrags}

InitMode ==
    /\ file = DocAbsent
    /\ life = LifeFor(file)
    /\ born = BornFor(file)
    /\ pc = [p \in Procs |-> "idle"]
    /\ req = [p \in Procs |-> NoReq]
    /\ data = [p \in Procs |-> EmptyMap]
    /\ chat = [p \in Procs |-> NoChat]
    /\ selectedMode = [p \in Procs |-> Null]
    /\ sent = [p \in Procs |-> NoSent]
    /\ upstream = [p \in Procs |-> "none"]
    /\ aiReply = [p \in Procs |-> <<>>]
    /\ resp = [p \in Procs |-> NoResp]
    /\ turns = 0
    /\ dmMessage \in Messages
    /\ dmMode = "none"

\* detectMode(message) is called and returns; it may be called again with
\* the same message.
DetectMode ==
    /\ dmMode' = detectMode(dmMessage)
    /\ UNCHANGED <<file, pc, req, locals, resp, life, born, turns, dmMessage>>

NextMode == DetectMode

SpecMode == InitMode /\ [][NextMode]_vars

\* ------------------------------------------------------------------ C8

\* c and d are the same letter, whatever their case.
Capital ==
    [d \in {LowerAlpha[n] : n \in 1..26} |->
        UpperAlpha[CHOOSE n \in 1..26 : LowerAlpha[n] = d]]

SameLetter(c, d) ==
    \/ c = d
    \/ d \in DOMAIN Capital /\ c = Capital[d]
    \/ c \in DOMAIN Capital /\ d = Capital[c]

\* m contains w, compared without regard to case.
ContainsCI(m, w) ==
    \E i \in 1..Len(m) :
        /\ i + Len(w) - 1 <= Len(m)
        /\ \A k \in 1..Len(w) : SameLetter(m[i + k - 1], w[k])

HasTechnical(m) == \E w \in techKeywords : ContainsCI(m, w)
HasShortAnswer(m) == ContainsCI(m, KwShortAnswer)
HasExam(m) == ContainsCI(m, KwExam) \/ ContainsCI(m, KwDefine)

\* C8: without a forced mode the mode is decided by fixed priority, whatever
\* the case of the letters: technical if the message contains a technical
\* keyword (even with "short answer", "exam" or "define" in it), else concise
\* if it contains "short answer" (even with "exam" or "define" in it), else
\* exam if it contains "exam" or "define", else chat.
C8_PriorityClassification ==
    dmMode # "none" =>
        /\ HasTechnical(dmMessage) => dmMode = "technical"
        /\ ~HasTechnical(dmMessage) /\ HasShortAnswer(dmMessage)
              => dmMode = "concise"
        /\ ~HasTechnical(dmMessage) /\ ~HasShortAnswer(dmMessage)
              /\ HasExam(dmMessage) => dmMode = "exam"
        /\ ~HasTechnical(dmMessage) /\ ~HasShortAnswer(dmMessage)
              /\ ~HasExam(dmMessage) => dmMode = "chat"

\* A message with "short answer" before "EXAM" in it was classified concise.
C8_Witness ==
    /\ dmMode = "concise"
    /\ dmMessage = <<"S","h","o","r","t"," ">> \o <<"A","n","s","w","e","r">>
                     \o <<"E","X","A","M">>


\* ------------------------------------------------------------------ C1

\* The last two messages of session id in the store are the user message and
\* the reply of the turn that slot p has answered.
TurnStored(p) ==
    /\ file.exists
    /\ req[p].chatId \in DOMAIN file.data
    /\ LET msgs == file.data[req[p].chatId].messages
           n == Len(msgs)
       IN  /\ n >= 3
           /\ msgs[n - 1] = Msg("user", req[p].message)
           /\ msgs[n] = Msg("assistant", resp[p].reply)

TurnAnswered(p) ==
    pc[p] = "done" /\ req[p].kind = "chat" /\ resp[p].status = 200

\* C1: once a turn on session A and a turn on another session B have both
\* returned, the store holds A's new user/assistant pair and B's.
C1_BothTurnsPersisted ==
    \A p, q \in Procs :
        (/\ p # q
         /\ TurnAnswered(p) /\ TurnAnswered(q)
         /\ req[p].chatId # req[q].chatId)
        => TurnStored(p) /\ TurnStored(q)


\* ------------------------------------------------------------------ C2

InStore(id) == file.exists /\ id \in DOMAIN file.data

\* C2: a session whose create has returned its identifier and for which no
\* delete has been issued is in the store, in every reachable state.
C2_NoSessionDropped ==
    \A id \in Ids : life[id] = "created" => InStore(id)


\* ------------------------------------------------------------------ C3

\* The sessions the store holds, none while chats.json does not exist.
StoreIds == IF file.exists THEN DOMAIN file.data ELSE {}

\* Slot p takes the step that ends its POST /api/chat with the commit.
Commits(p) ==
    req[p].kind = "chat" /\ pc[p] = "write" /\ pc'[p] = "done"

\* C3: a turn that runs with no other operation interleaved leaves the stored
\* transcript equal to the previous transcript followed by the user message
\* with the submitted text and the assistant message with the returned
\* reply, and the stored memory equal to the submitted text.
C3_TurnAppendsPair ==
    [][\A p \in Procs :
         Commits(p) =>
            /\ req[p].chatId \in StoreIds
            /\ resp'[p].status = 200
            /\ file'.data[req[p].chatId].messages =
                 file.data[req[p].chatId].messages
                   \o << Msg("user", req[p].message),
                         Msg("assistant", resp'[p].reply) >>
            /\ file'.data[req[p].chatId].memory = req[p].message]_vars

\* A turn has been answered on a session that held 13 messages before it.
C3_Witness ==
    \E p \in Procs :
        /\ TurnAnswered(p)
        /\ TurnStored(p)
        /\ Len(file.data[req[p].chatId].messages) = 15
        /\ file.data[req[p].chatId].memory = req[p].message

\* ------------------------------------------------------------------ C4

\* Slot p takes a step of a POST /api/chat whose chatId is not in the store.
StepsOnMissing(p) ==
    /\ req[p].kind = "chat"
    /\ pc[p] \notin {"idle", "done"}
    /\ pc'[p] # pc[p]
    /\ req[p].chatId \notin StoreIds

\* C4 as claimed: a turn on a session id that is not in the store answers
\* NotFound and performs no write to the store document, also when the
\* document does not exist yet.
C4_NoWriteAtAll ==
    [][\A p \in Procs :
         StepsOnMissing(p) =>
            /\ file' = file
            /\ pc[p] = "read" =>
                 pc'[p] = "done" /\ resp'[p] = NotFound]_vars

\* C4 as amended: a turn on a session id that is not in the store answers
\* NotFound and performs no write to the store document, except that it
\* writes the empty mapping when its existence check found no document.
C4_OnlyLazyInitWrite ==
    [][\A p \in Procs :
         StepsOnMissing(p) =>
            /\ file' # file =>
                 /\ pc[p] = "init"
                 /\ ~file.exists
                 /\ file' = [exists |-> TRUE, data |-> EmptyMap]
            /\ pc[p] = "read" =>
                 pc'[p] = "done" /\ resp'[p] = NotFound]_vars

\* A turn on an identifier the server never generated was answered 404, the
\* document having been created empty on the way.
C4_Witness ==
    \E p \in Procs :
        /\ pc[p] = "done" /\ req[p].kind = "chat"
        /\ req[p].chatId = UnknownId
        /\ resp[p] = NotFound
        /\ file = [exists |-> TRUE, data |-> EmptyMap]
        /\ \A i \in Ids : life[i] = "free"

\* ------------------------------------------------------------------ C5

\* C5: when the generator call fails, the turn still answers normally, with
\* the fallback text as the reply, and the committed transcript is the
\* previous one followed by the user message and an assistant message whose
\* content is the fallback text.
C5_UpstreamFailureAbsorbed ==
    [][\A p \in Procs :
         Commits(p) /\ upstream[p] = "failed" =>
            /\ req[p].chatId \in StoreIds
            /\ resp'[p].status = 200
            /\ resp'[p].reply = Fallback
            /\ file'.data[req[p].chatId].messages =
                 file.data[req[p].chatId].messages
                   \o << Msg("user", req[p].message),
                         Msg("assistant", Fallback) >>]_vars

\* A turn whose generator call failed has been answered 200 and is stored.
C5_Witness ==
    \E p \in Procs :
        /\ TurnAnswered(p)
        /\ upstream[p] = "failed"
        /\ resp[p].reply = Fallback
        /\ TurnStored(p)


\* ------------------------------------------------------------------ C6

\* The sessions of the store, the empty mapping while chats.json is absent.
StoreMap(f) == IF f.exists THEN f.data ELSE EmptyMap

\* Slot p takes the step that answers its request of the given kind.
Answers(p, kind) ==
    req[p].kind = kind /\ pc[p] \notin {"idle", "done"} /\ pc'[p] = "done"

Existed(r) == r.status = 200

\* C6: with requests served one at a time, a remove of a stored session
\* returns true and a remove of an identifier whose session was removed
\* before returns false, both without an error; after either the session is
\* absent from the store, from fetch and from list; a remove of an identifier
\* that was never created returns false and leaves the store unchanged.
C6_RemoveTwice ==
    [][\A p \in Procs :
         /\ Answers(p, "delete") =>
              /\ resp'[p] \in {[status |-> 200, success |-> TRUE], NotFound}
              /\ Existed(resp'[p]) <=> req[p].chatId \in StoreIds
              /\ req[p].chatId \in Ids /\ life[req[p].chatId] = "removed"
                   => ~Existed(resp'[p])
              /\ req[p].chatId \notin StoreIds'
              /\ req[p].chatId = UnknownId
                   => ~Existed(resp'[p]) /\ StoreMap(file') = StoreMap(file)
         /\ Answers(p, "get") /\ req[p].chatId \in Ids
              /\ life[req[p].chatId] = "removed"
              => resp'[p] = NotFound
         /\ Answers(p, "list") =>
              \A i \in 1..Len(resp'[p].list) :
                  life[resp'[p].list[i].chatId] # "removed"]_vars

\* The second remove of a session has returned false.
C6_Witness ==
    \E p \in Procs :
        /\ pc[p] = "done" /\ req[p].kind = "delete"
        /\ req[p].chatId \in Ids
        /\ life[req[p].chatId] = "removed"
        /\ resp[p] = NotFound
        /\ req[p].chatId \notin StoreIds

\* ------------------------------------------------------------------ C7

\* C7: when create returns an identifier, the store holds under it a session
\* titled "New Chat" with exactly one message, of role assistant, empty
\* memory and no forced mode, and no earlier create has returned that
\* identifier.
C7_FreshSession ==
    [][\A p \in Procs :
         Answers(p, "create") =>
            LET id == resp'[p].chatId IN
            /\ resp'[p].status = 200
            /\ id \in StoreIds'
            /\ file'.data[id].title = Str("New Chat")
            /\ Len(file'.data[id].messages) = 1
            /\ file'.data[id].messages[1].role = "assistant"
            /\ file'.data[id].memory = <<>>
            /\ file'.data[id].forcedMode = Null
            /\ life[id] \notin {"created", "delIssued", "removed"}]_vars

\* A create has returned the second identifier, and its session is stored
\* with the seed content.
C7_Witness ==
    \E p \in Procs :
        /\ pc[p] = "done" /\ req[p].kind = "create" /\ resp[p].status = 200
        /\ \A i \in Ids : life[i] # "free"
        /\ resp[p].chatId \in StoreIds
        /\ Len(file.data[resp[p].chatId].messages) = 1
        /\ file.data[resp[p].chatId].memory = <<>>

\* ------------------------------------------------------------------ C9

\* The mode C8 states for a message, computed without detectMode.
Detected(m) ==
    IF HasTechnical(m) THEN "technical"
    ELSE IF HasShortAnswer(m) THEN "concise"
    ELSE IF HasExam(m) THEN "exam"
    ELSE "chat"

\* Slot p takes the step in which its turn calls the generator.
CallsGenerator(p) ==
    req[p].kind = "chat" /\ pc[p] = "read" /\ pc'[p] = "groq"

\* C9: a turn on a session whose forcedMode is a known profile passes that
\* profile's parameters and preamble to the generator and reports it as
\* modeUsed, whatever the message; without a forcedMode the mode detected
\* from the message is used; modeUsed names the profile whose parameters were
\* passed to the generator.
C9_ModeUsed ==
    [][\A p \in Procs :
         /\ CallsGenerator(p) =>
              LET forced == file.data[req[p].chatId].forcedMode
                  mode == IF forced \in ModeNames THEN forced
                          ELSE Detected(req[p].message)
              IN  /\ forced \in ModeNames \cup {Null}
                  /\ selectedMode'[p] = mode
                  /\ sent'[p].config.temperature = MODES[mode].temperature
                  /\ sent'[p].config.max_tokens = MODES[mode].max_tokens
                  /\ SubSeq(sent'[p].messages[1].content, 1, 1)
                       = MODES[mode].systemPrompt
         /\ Commits(p) =>
              /\ resp'[p].modeUsed = selectedMode[p]
              /\ sent[p].config.temperature
                   = MODES[resp'[p].modeUsed].temperature
              /\ sent[p].config.max_tokens
                   = MODES[resp'[p].modeUsed].max_tokens]_vars

\* A turn with a technical keyword on the session forced to concise has been
\* answered with modeUsed concise.
C9_Witness ==
    \E p \in Procs :
        /\ TurnAnswered(p)
        /\ req[p].message = MsgBug
        /\ resp[p].modeUsed = "concise"

\* ------------------------------------------------------------------ C10

Min(a, b) == IF a <= b THEN a ELSE b

\* C10: the sequence sent to the generator is one instruction message, the
\* profile's preamble followed by the memory the session had before this
\* turn ("None" when that memory is empty), followed by the last min(12, n)
\* messages of the n-message transcript that includes the current user
\* message, in their order and unmodified.
C10_ContextWindow ==
    [][\A p \in Procs :
         CallsGenerator(p) =>
            LET old == file.data[req[p].chatId]
                t == old.messages \o <<Msg("user", req[p].message)>>
                n == Len(t)
                k == Min(12, n)
                out == sent'[p].messages
            IN  /\ Len(out) = k + 1
                /\ out[1].role = "system"
                /\ out[1].content =
                     MODES[selectedMode'[p]].systemPrompt \o MemoryHeader
                       \o (IF old.memory = <<>> THEN NoneText ELSE old.memory)
                /\ \A i \in 1..k : out[i + 1] = t[n - k + i]]_vars

\* A turn on a transcript of 14 messages is waiting for the generator, which
\* was sent 13 messages.
C10_Witness ==
    \E p \in Procs :
        /\ pc[p] = "groq"
        /\ Len(chat[p].messages) = 14
        /\ Len(sent[p].messages) = 13
        /\ chat[p].memory # <<>>

\* ------------------------------------------------------------------ C11

\* Slot p takes the step in which POST /api/chat arrives with its chatId or
\* its message missing.
ArrivesIncomplete(p) ==
    /\ pc[p] = "idle" /\ req'[p].kind = "chat"
    /\ req'[p].chatId = NoId \/ req'[p].message = <<>>

\* C11: a turn whose sessionId or userText is missing is answered
\* InvalidRequest at once: the request goes on to no store read or write and
\* no generator call, and the store is unchanged.
C11_InvalidRequest ==
    [][\A p \in Procs :
         ArrivesIncomplete(p) =>
            /\ pc'[p] = "done"
            /\ resp'[p] = [status |-> 400, error |-> "Invalid request"]
            /\ file' = file
            /\ data'[p] = EmptyMap
            /\ chat'[p] = NoChat
            /\ sent'[p] = NoSent
            /\ upstream'[p] = "none"]_vars

\* A turn on a stored session with an empty message has been answered 400.
C11_Witness ==
    \E p \in Procs :
        /\ pc[p] = "done" /\ req[p].kind = "chat"
        /\ req[p].chatId \in StoreIds
        /\ req[p].message = <<>>
        /\ resp[p].status = 400

\* ------------------------------------------------------- storage failures

\* What happens to a request whose handler has no try/catch when the promise
\* it awaits rejects: Express 4 leaves the rejection unhandled and sends
\* nothing; Express 5 passes it to the default error handler, which answers
\* 500.
Uncaught ==
    {NoResp, [status |-> 500, error |-> "Internal Server Error"]}

\* fs.readFile (line 43) or fs.writeFile (lines 37, 48) rejects with an I/O
\* error.  Only GET /api/chats catches it (lines 190-192).
IoFail(p) ==
    /\ pc[p] \in {"init", "save_init", "read", "save_read", "write"}
    /\ \E r \in Uncaught :
        resp' = [resp EXCEPT ![p] =
                   IF req[p].kind = "list"
                   THEN [status |-> 500, error |-> "Failed to load chats"]
                   ELSE r]
    /\ pc' = [pc EXCEPT ![p] = "failed"]
    /\ UNCHANGED <<file, req, locals, life, born, turns, dmVars>>

InitFail ==
    /\ file \in {DocAbsent, DocTwo(0)}
    /\ life = LifeFor(file)
    /\ born = BornFor(file)
    /\ InitCommon

\* The routes served one at a time, with file operations that may fail.
NextFail ==
    \/ NextSeq
    \/ \E p \in Procs : IoFail(p)

SpecFail == InitFail /\ [][NextFail]_vars

\* ------------------------------------------------------------------ C12

\* C12: a request whose read or write of the persisted mapping failed has an
\* explicit error response; it is never left without one.
C12_StorageFailureSurfaced ==
    \A p \in Procs : pc[p] = "failed" => resp[p].status = 500


\* ------------------------------------------------------------------ C13

\* A transcript made of the greeting followed by user/assistant pairs.
WholeTurns(msgs) ==
    /\ Len(msgs) % 2 = 1
    /\ msgs[1] = Msg("assistant", Greeting)
    /\ \A i \in 2..Len(msgs) :
          msgs[i].role = IF i % 2 = 0 THEN "user" ELSE "assistant"

\* C13: every session in the store has a transcript of odd length that
\* starts with the assistant greeting and continues in user/assistant pairs,
\* so a user message is never stored without its reply.
C13_NoPartialTurn ==
    \A id \in StoreIds : WholeTurns(file.data[id].messages)

\* Two turns have been committed on one session while another request is in
\* flight.
C13_Witness ==
    /\ \E id \in StoreIds : Len(file.data[id].messages) >= 5
    /\ \E p \in Procs : pc[p] \notin {"idle", "done"}


\* ------------------------------------------------------------------ C14

IsPrefix(s, t) == Len(s) <= Len(t) /\ SubSeq(t, 1, Len(s)) = s

\* C14: a stored transcript is append-only: across every step, the transcript
\* of a session stored before and after the step is extended, never
\* shortened or rewritten.
C14_AppendOnly ==
    [][\A id \in Ids :
         (InStore(id) /\ InStore(id)')
         => IsPrefix(file.data[id].messages, file'.data[id].messages)]_vars


\* ------------------------------------------------------------------ C15

\* C15: every session in the store has the title, createdAt and forcedMode
\* it was created with; turns, creates and deletes never change them.
C15_CreationFieldsKept ==
    \A id \in StoreIds : Created(file.data[id]) = born[id]

\* A turn has been committed on the session created with a forced mode, and
\* the other session has been deleted.
C15_Witness ==
    \E id \in StoreIds :
        /\ born[id].forcedMode # Null
        /\ Len(file.data[id].messages) >= 3
        /\ \E other \in Ids : life[other] = "removed"

\* ------------------------------------------------------------------ C16

\* C16: once a delete of a session has answered success, the session is
\* absent from the store in every later state.
C16_DeletionFinal ==
    \A id \in Ids : life[id] = "removed" => ~InStore(id)


\* ------------------------------------------------------------------ C17

\* The empty mapping of ensureDataFile is written by p in this step.
LazyInitWrites(p) ==
    /\ pc[p] \in {"init", "save_init"}
    /\ pc'[p] \in {"read", "save_read"}

\* C17: the empty mapping written by the lazy initialization never replaces
\* a document that already holds a session.
C17_LazyInitKeepsData ==
    [][\A p \in Procs : LazyInitWrites(p) => StoreIds = {}]_vars


\* ------------------------------------------------------------------ C18

UserIndexes(msgs) == {i \in 1..Len(msgs) : msgs[i].role = "user"}

LastUserText(msgs) ==
    LET last == CHOOSE i \in UserIndexes(msgs) :
                    \A j \in UserIndexes(msgs) : j <= i
    IN  msgs[last].content

\* C18: each stored session's memory is the content of the last user message
\* of its stored transcript, and is empty exactly when the transcript holds
\* no user message.
C18_MemoryIsLastUserText ==
    \A id \in StoreIds :
        LET c == file.data[id]
        IN  /\ (c.memory = <<>>) <=> (UserIndexes(c.messages) = {})
            /\ UserIndexes(c.messages) # {}
               => c.memory = LastUserText(c.messages)

\* A session holds two committed turns with different user texts, and its
\* memory is the later one.
C18_Witness ==
    \E id \in StoreIds :
        LET c == file.data[id]
        IN  /\ Len(c.messages) >= 5
            /\ c.messages[Len(c.messages) - 1].content
                 # c.messages[Len(c.messages) - 3].content
            /\ c.memory = c.messages[Len(c.messages) - 1].content


\* ------------------------------------------------ progress of the requests

\* The slots whose generator call is assumed to return; the call of any other
\* slot may stay pending for ever (callGroq sets no timeout, lines 121-137).
Returning == {"p1"}

InitLive ==
    /\ file \in {DocAbsent, DocTwo(0)}
    /\ life = LifeFor(file)
    /\ born = BornFor(file)
    /\ InitCommon

\* Two overlapping requests, one per slot, each followed to its response.
NextLive ==
    \E p \in Procs :
        \/ StartDelete(p, KnownIds)
        \/ StartCreate(p)
        \/ StartChat(p, KnownIds, {MsgHi})
        \/ Access(p)
        \/ EnsureWrite(p)
        \/ ReadDelete(p)
        \/ ReadCreate(p)
        \/ ReadChat(p)
        \/ Groq(p, {"ok", "exception"})
        \/ ReadSave(p)
        \/ Write(p)

\* The event loop runs every continuation whose file operation has completed,
\* and file operations complete; requests need not arrive.
StorageFair(p) ==
    /\ WF_vars(Access(p))
    /\ WF_vars(EnsureWrite(p))
    /\ WF_vars(ReadDelete(p))
    /\ WF_vars(ReadCreate(p))
    /\ WF_vars(ReadChat(p))
    /\ WF_vars(ReadSave(p))
    /\ WF_vars(Write(p))

SpecLive ==
    /\ InitLive
    /\ [][NextLive]_vars
    /\ \A p \in Procs : StorageFair(p)
    /\ \A p \in Returning : WF_vars(Groq(p, {"ok", "exception"}))

\* ------------------------------------------------------------------ C19

InFlight(p) == pc[p] \notin {"idle", "done"}

====
